---- MODULE Spec2Model ----
(***************************************************************************)
(* Model of src/app.js: an express gateway that attaches a Strava bearer   *)
(* token to every forwarded request.  The middleware ensureAccessToken     *)
(* reads the singleton row of strava_auth, checks its freshness and, when  *)
(* stale, calls authenticateWithStrava, which exchanges a refresh token at *)
(* the authorization endpoint and UPDATEs the row.                         *)
(*                                                                         *)
(* Node runs the JavaScript between two awaits atomically; the database    *)
(* and the two upstream services run concurrently with it.  An await that  *)
(* succeeds is therefore two steps here: the external party serving the    *)
(* call, and the continuation of the async function that receives the      *)
(* result.  A call that fails changes nothing at the external party, so    *)
(* its rejection and the catch that handles it are one step.               *)
(***************************************************************************)
EXTENDS Integers, Sequences, FiniteSets, TLC

\* ---------------------------------------------------------------- bounds
\* Number of inbound HTTP requests of one run.
NumReqs == 2
\* Number of times the clock advances in one run.
MaxTicks == 1
\* Date.now() at the start of the run, in milliseconds.
StartNow == 1000000
\* Milliseconds by which one clock step advances Date.now().
TickMs == 30000
\* Lifetime, in seconds, of an access token issued by the authorization server.
TokenLifeSec == 3600

\* ------------------------------------------------------ program constants
\* The safety margin subtracted at the freshness check.
SkewMs == 60000
\* Date.now() and Date.prototype.getTime() count milliseconds; the
\* authorization server's expires_at counts seconds since the epoch.
MsPerSec == 1000

Reqs == 1..NumReqs

\* The six routes registered on the app, all behind ensureAccessToken.
Routes == {"GET /athlete", "POST /activities", "GET /activities/:id",
           "GET /activities/:id/comments", "GET /athlete/activities",
           "PUT /activities/:id"}

None == [kind |-> "none", n |-> 0]
\* SELECT ... WHERE id = 1 matched no row: results is [] and results[0] undefined.
NoRow == [access_token |-> None, refresh_token |-> None, expires_at |-> -1, row |-> FALSE]

Tok(kind, n) == [kind |-> kind, n |-> n]
\* config.strava.accessToken, the value sent as refresh_token.
ConfigAccessToken == Tok("config", 0)

Row(a, r, e) == [access_token |-> a, refresh_token |-> r, expires_at |-> e, row |-> TRUE]

\* The n-th response of the authorization server: a new access/refresh pair
\* and the expiry of the access token in seconds since the epoch.
UpstreamResponse(n, nowMs) ==
  Row(Tok("access", n), Tok("refresh", n), (nowMs \div MsPerSec) + TokenLifeSec)

\* expires_at values of the pre-seeded row, in the unit line 69 reads them in
\* (milliseconds): already expired, fresh at the start of the run and no
\* longer after one clock step, fresh for the whole run, and a value in
\* seconds as the authorization server gives it.
SeedExpiries == {StartNow - 10000,
                 StartNow + SkewMs,
                 StartNow + 3600000,
                 (StartNow \div MsPerSec) + TokenLifeSec}

SeedRows == {Row(Tok("access", 0), Tok("refresh", 0), e) : e \in SeedExpiries}

VARIABLES
  store,      \* the row id = 1 of strava_auth, or NoRow
  now,        \* Date.now()
  issued,     \* the responses the authorization server has given, in order
  pc,         \* where each request is
  rec,        \* results[0] as the request read it
  stale,      \* outcome of the request's freshness check
  sent,       \* refresh_token the request posted to the authorization endpoint
  resp,       \* response.data of the request's token exchange
  wrote,      \* the row as the request's UPDATE left it
  token,      \* req.accessToken
  bearer,     \* bearer tokens of the request's outbound calls to the API
  nextCalls,  \* number of calls of next() by the middleware
  responses,  \* statuses of the responses sent to the client
  err         \* the await whose failure the request caught

vars == <<store, now, issued, pc, rec, stale, sent, resp, wrote,
          token, bearer, nextCalls, responses, err>>

reqVars == <<rec, stale, sent, resp, wrote, token, bearer,
             nextCalls, responses, err>>

\* new Date(expires_at).getTime(): a number is taken as milliseconds since the
\* epoch, whatever unit its producer meant.
DateGetTime(expires_at) == expires_at

\* Variant of the freshness check that already refreshes at the margin itself.
IsStaleAtMargin(nowMs, expires_at) == nowMs >= DateGetTime(expires_at) - SkewMs

\* Line 69: Date.now() > new Date(expires_at).getTime() - 60000
IsStale(nowMs, expires_at) == nowMs > DateGetTime(expires_at) - SkewMs

Init ==
  /\ store \in SeedRows \cup {NoRow}
  /\ now = StartNow
  /\ issued = <<>>
  /\ pc = [r \in Reqs |-> "idle"]
  /\ rec = [r \in Reqs |-> None]
  /\ stale = [r \in Reqs |-> "unchecked"]
  /\ sent = [r \in Reqs |-> None]
  /\ resp = [r \in Reqs |-> None]
  /\ wrote = [r \in Reqs |-> None]
  /\ token = [r \in Reqs |-> None]
  /\ bearer = [r \in Reqs |-> <<>>]
  /\ nextCalls = [r \in Reqs |-> 0]
  /\ responses = [r \in Reqs |-> <<>>]
  /\ err = [r \in Reqs |-> "none"]

\* The clock advances.
Tick ==
  /\ now < StartNow + MaxTicks * TickMs
  /\ now' = now + TickMs
  /\ UNCHANGED <<store, issued, pc, reqVars>>

\* res.status(500).json({ error: 'Internal Server Error' })
Respond500(r, cause) ==
  /\ responses' = [responses EXCEPT ![r] = Append(@, 500)]
  /\ err' = [err EXCEPT ![r] = cause]
  /\ pc' = [pc EXCEPT ![r] = "done"]

\* Variant in which the token is kept in one variable of the module, set when
\* a token exchange is answered, instead of on the request.
CallNextSharedToken(r, tok) ==
  /\ token' = [token EXCEPT ![r] = tok]
  /\ nextCalls' = [nextCalls EXCEPT ![r] = @ + 1]
  /\ bearer' = [bearer EXCEPT ![r] =
                  Append(@, IF issued # <<>> THEN issued[Len(issued)].access_token ELSE tok)]
  /\ pc' = [pc EXCEPT ![r] = "api"]

\* next(): express runs the route handler, which runs up to its await: the
\* forwarded call is sent with Authorization: Bearer req.accessToken.
CallNext(r, tok) ==
  /\ token' = [token EXCEPT ![r] = tok]
  /\ nextCalls' = [nextCalls EXCEPT ![r] = @ + 1]
  /\ bearer' = [bearer EXCEPT ![r] = Append(@, tok)]
  /\ pc' = [pc EXCEPT ![r] = "api"]

\* A request arrives on one of the routes; ensureAccessToken sends the SELECT.
\* The route decides the URL and body of the forwarded call only.
Arrive(r, rt) ==
  /\ pc[r] = "idle"
  /\ rt \in Routes
  /\ pc' = [pc EXCEPT ![r] = "select"]
  /\ UNCHANGED <<store, now, issued, reqVars>>

\* executeQuery resolves: the database ran the SELECT.
DbSelectOk(r) ==
  /\ pc[r] = "select"
  /\ rec' = [rec EXCEPT ![r] = store]
  /\ pc' = [pc EXCEPT ![r] = "selectOk"]
  /\ UNCHANGED <<store, now, issued, stale, sent, resp, wrote, token, bearer,
                 nextCalls, responses, err>>

\* Variant in which the catch only logs a rejected SELECT and sends nothing.
DbSelectFailLogsOnly(r) ==
  /\ pc[r] = "select"
  /\ err' = [err EXCEPT ![r] = "select"]
  /\ pc' = [pc EXCEPT ![r] = "done"]
  /\ UNCHANGED <<store, now, issued, rec, stale, sent, resp, wrote, token,
                 bearer, nextCalls, responses>>

\* executeQuery rejects (no connection, or the query failed) and the catch of
\* ensureAccessToken answers 500.
DbSelectFail(r) ==
  /\ pc[r] = "select"
  /\ Respond500(r, "select")
  /\ UNCHANGED <<store, now, issued, rec, stale, sent, resp, wrote, token,
                 bearer, nextCalls>>

\* Variant in which a failed token exchange is remembered: once one request's
\* exchange has failed, every request is answered 500 after its SELECT.
AfterSelectRemembersFailure(r) ==
  /\ pc[r] = "selectOk"
  /\ IF ~rec[r].row \/ \E q \in Reqs : err[q] = "exchange"
       THEN /\ Respond500(r, IF rec[r].row THEN "exchange" ELSE "norow")
            /\ UNCHANGED <<stale, sent, token, bearer, nextCalls>>
       ELSE /\ stale' = [stale EXCEPT ![r] = IF IsStale(now, rec[r].expires_at) THEN "stale" ELSE "fresh"]
            /\ IF IsStale(now, rec[r].expires_at)
                 THEN /\ sent' = [sent EXCEPT ![r] = ConfigAccessToken]
                      /\ pc' = [pc EXCEPT ![r] = "exchange"]
                      /\ UNCHANGED <<token, bearer, nextCalls>>
                 ELSE /\ CallNext(r, rec[r].access_token)
                      /\ UNCHANGED sent
            /\ UNCHANGED <<responses, err>>
  /\ UNCHANGED <<store, now, issued, rec, resp, wrote>>

\* Variant in which a missing row is read as an empty object: expires_at is
\* undefined, the comparison with NaN is false, and the request is passed on
\* with an undefined token.
AfterSelectDefaultsMissingRow(r) ==
  /\ pc[r] = "selectOk"
  /\ IF ~rec[r].row
       THEN /\ stale' = [stale EXCEPT ![r] = "fresh"]
            /\ CallNext(r, None)
            /\ UNCHANGED sent
       ELSE /\ stale' = [stale EXCEPT ![r] = IF IsStale(now, rec[r].expires_at) THEN "stale" ELSE "fresh"]
            /\ IF IsStale(now, rec[r].expires_at)
                 THEN /\ sent' = [sent EXCEPT ![r] = ConfigAccessToken]
                      /\ pc' = [pc EXCEPT ![r] = "exchange"]
                      /\ UNCHANGED <<token, bearer, nextCalls>>
                 ELSE /\ CallNext(r, rec[r].access_token)
                      /\ UNCHANGED sent
  /\ UNCHANGED <<store, now, issued, rec, resp, wrote, responses, err>>

\* Lines 66-76: results[0] is destructured (a TypeError when there is no row),
\* the freshness check runs, and either the token exchange is posted or the
\* stored token is attached and next() called.
AfterSelect(r) ==
  /\ pc[r] = "selectOk"
  /\ IF ~rec[r].row
       THEN /\ Respond500(r, "norow")
            /\ UNCHANGED <<stale, sent, token, bearer, nextCalls>>
       ELSE /\ stale' = [stale EXCEPT ![r] = IF IsStale(now, rec[r].expires_at) THEN "stale" ELSE "fresh"]
            /\ IF IsStale(now, rec[r].expires_at)
                 THEN /\ sent' = [sent EXCEPT ![r] = ConfigAccessToken]
                      /\ pc' = [pc EXCEPT ![r] = "exchange"]
                      /\ UNCHANGED <<token, bearer, nextCalls>>
                 ELSE /\ CallNext(r, rec[r].access_token)
                      /\ UNCHANGED sent
            /\ UNCHANGED <<responses, err>>
  /\ UNCHANGED <<store, now, issued, rec, resp, wrote>>

\* The authorization server answers the POST with a new triple.
ExchangeOk(r) ==
  /\ pc[r] = "exchange"
  /\ issued' = Append(issued, UpstreamResponse(Len(issued) + 1, now))
  /\ resp' = [resp EXCEPT ![r] = UpstreamResponse(Len(issued) + 1, now)]
  /\ pc' = [pc EXCEPT ![r] = "exchangeOk"]
  /\ UNCHANGED <<store, now, rec, stale, sent, wrote, token, bearer,
                 nextCalls, responses, err>>

\* Variant in which a failed exchange is logged and the POST sent once more.
ExchangeFailRetriesOnce(r) ==
  /\ pc[r] = "exchange"
  /\ IF err[r] = "none"
       THEN /\ err' = [err EXCEPT ![r] = "exchange"]
            /\ UNCHANGED <<pc, responses>>
       ELSE Respond500(r, "exchange")
  /\ UNCHANGED <<store, now, issued, rec, stale, sent, resp, wrote, token,
                 bearer, nextCalls>>

\* Variant in which an error answer of the authorization server is taken for a
\* response: its body has none of the three fields, and the UPDATE follows.
ExchangeFailTakenAsResponse(r) ==
  /\ pc[r] = "exchange"
  /\ resp' = [resp EXCEPT ![r] = Row(None, None, -1)]
  /\ pc' = [pc EXCEPT ![r] = "exchangeOk"]
  /\ UNCHANGED <<store, now, issued, rec, stale, sent, wrote, token, bearer,
                 nextCalls, responses, err>>

\* Variant in which a failed exchange falls back to the access token read
\* from the store and passes the request on.
ExchangeFailFallsBack(r) ==
  /\ pc[r] = "exchange"
  /\ CallNext(r, rec[r].access_token)
  /\ UNCHANGED <<store, now, issued, rec, stale, sent, resp, wrote,
                 responses, err>>

\* The POST fails (rejected, network error or non-success status); lines 56-58
\* log and rethrow, and the catch of ensureAccessToken answers 500.
ExchangeFail(r) ==
  /\ pc[r] = "exchange"
  /\ Respond500(r, "exchange")
  /\ UNCHANGED <<store, now, issued, rec, stale, sent, resp, wrote, token,
                 bearer, nextCalls>>

\* Lines 47-53: the response is destructured and the UPDATE sent.
AfterExchange(r) ==
  /\ pc[r] = "exchangeOk"
  /\ pc' = [pc EXCEPT ![r] = "update"]
  /\ UNCHANGED <<store, now, issued, reqVars>>

\* Variant of the UPDATE that leaves expires_at as it was.
UpdateRowKeepsExpiry(old, new) ==
  IF old.row THEN Row(new.access_token, new.refresh_token, old.expires_at) ELSE old

\* Variant of the UPDATE whose parameters are in the wrong order.
UpdateRowSwapsTokens(old, new) ==
  IF old.row THEN Row(new.refresh_token, new.access_token, new.expires_at) ELSE old

\* Variant of the UPDATE that sets access_token only.
UpdateRowAccessTokenOnly(old, new) ==
  IF old.row THEN Row(new.access_token, old.refresh_token, old.expires_at) ELSE old

\* UPDATE strava_auth SET access_token = ?, refresh_token = ?, expires_at = ?
\* WHERE id = 1, as the database runs it.
UpdateRow(old, new) ==
  IF old.row THEN Row(new.access_token, new.refresh_token, new.expires_at) ELSE old

\* executeQuery resolves: the database ran the UPDATE.
DbUpdateOk(r) ==
  /\ pc[r] = "update"
  /\ store' = UpdateRow(store, resp[r])
  /\ wrote' = [wrote EXCEPT ![r] = UpdateRow(store, resp[r])]
  /\ pc' = [pc EXCEPT ![r] = "updateOk"]
  /\ UNCHANGED <<now, issued, rec, stale, sent, resp, token, bearer,
                 nextCalls, responses, err>>

\* Variant in which a rejected UPDATE is swallowed and access_token returned.
DbUpdateFailSwallowed(r) ==
  /\ pc[r] = "update"
  /\ CallNext(r, resp[r].access_token)
  /\ UNCHANGED <<store, now, issued, rec, stale, sent, resp, wrote,
                 responses, err>>

\* executeQuery rejects the UPDATE; lines 56-58 log and rethrow, and the catch
\* of ensureAccessToken answers 500.
DbUpdateFail(r) ==
  /\ pc[r] = "update"
  /\ Respond500(r, "update")
  /\ UNCHANGED <<store, now, issued, rec, stale, sent, resp, wrote, token,
                 bearer, nextCalls>>

\* Lines 55, 71 and 76: authenticateWithStrava returns access_token, which
\* becomes req.accessToken, and next() is called.
AfterUpdate(r) ==
  /\ pc[r] = "updateOk"
  /\ CallNext(r, resp[r].access_token)
  /\ UNCHANGED <<store, now, issued, rec, stale, sent, resp, wrote,
                 responses, err>>

\* The forwarded call succeeds and the handler passes the body on: res.json.
ApiOk(r) ==
  /\ pc[r] = "api"
  /\ responses' = [responses EXCEPT ![r] = Append(@, 200)]
  /\ pc' = [pc EXCEPT ![r] = "done"]
  /\ UNCHANGED <<store, now, issued, rec, stale, sent, resp, wrote, token,
                 bearer, nextCalls, err>>

\* Variant in which the handler passes the upstream's error status on.
ApiFailPassesStatusOn(r) ==
  /\ pc[r] = "api"
  /\ responses' = [responses EXCEPT ![r] = Append(@, 404)]
  /\ err' = [err EXCEPT ![r] = "api"]
  /\ pc' = [pc EXCEPT ![r] = "done"]
  /\ UNCHANGED <<store, now, issued, rec, stale, sent, resp, wrote, token,
                 bearer, nextCalls>>

\* Variant in which the handler's failure also reaches the catch of the
\* middleware, which answers once more.
ApiFailAnsweredTwice(r) ==
  /\ pc[r] = "api"
  /\ responses' = [responses EXCEPT ![r] = @ \o <<500, 500>>]
  /\ err' = [err EXCEPT ![r] = "api"]
  /\ pc' = [pc EXCEPT ![r] = "done"]
  /\ UNCHANGED <<store, now, issued, rec, stale, sent, resp, wrote, token,
                 bearer, nextCalls>>

\* The forwarded call fails and the handler's catch answers 500.
ApiFail(r) ==
  /\ pc[r] = "api"
  /\ Respond500(r, "api")
  /\ UNCHANGED <<store, now, issued, rec, stale, sent, resp, wrote, token,
                 bearer, nextCalls>>

Next ==
  \/ Tick
  \/ \E r \in Reqs, rt \in Routes : Arrive(r, rt)
  \/ \E r \in Reqs : DbSelectOk(r)
  \/ \E r \in Reqs : DbSelectFail(r)
  \/ \E r \in Reqs : AfterSelect(r)
  \/ \E r \in Reqs : ExchangeOk(r)
  \/ \E r \in Reqs : ExchangeFail(r)
  \/ \E r \in Reqs : AfterExchange(r)
  \/ \E r \in Reqs : DbUpdateOk(r)
  \/ \E r \in Reqs : DbUpdateFail(r)
  \/ \E r \in Reqs : AfterUpdate(r)
  \/ \E r \in Reqs : ApiOk(r)
  \/ \E r \in Reqs : ApiFail(r)

Spec == Init /\ [][Next]_vars

TypeOK ==
  /\ pc \in [Reqs -> {"idle", "select", "selectOk", "exchange", "exchangeOk",
                      "update", "updateOk", "api", "done"}]
  /\ now \in StartNow..(StartNow + MaxTicks * TickMs)
  /\ Len(issued) <= NumReqs

\* The steps of one request after its arrival: the database and the upstream
\* services answering its calls, and Node running its continuations.
ReqStep(r) ==
  \/ DbSelectOk(r) \/ DbSelectFail(r) \/ AfterSelect(r)
  \/ ExchangeOk(r) \/ ExchangeFail(r) \/ AfterExchange(r)
  \/ DbUpdateOk(r) \/ DbUpdateFail(r) \/ AfterUpdate(r)
  \/ ApiOk(r) \/ ApiFail(r)

\* Every store query and every upstream call eventually completes or fails,
\* and the event loop eventually runs each continuation.
FairSpec == Spec /\ \A r \in Reqs : WF_vars(ReqStep(r))

\* ------------------------------------------------------------------ claims
Last(q) == q[Len(q)]
Quiet == \A r \in Reqs : pc[r] \in {"idle", "done"}
Refreshing(r) == stale[r] = "stale"
Handed(r) == nextCalls[r] > 0

\* C1: single-flight refresh.  At no time are two token exchanges in flight,
\* and no two requests post a token exchange for the same stale record.
C1_SingleFlight ==
  /\ Cardinality({r \in Reqs : pc[r] = "exchange"}) <= 1
  /\ \A r1, r2 \in Reqs :
       (r1 # r2 /\ sent[r1] # None /\ sent[r2] # None) => rec[r1] # rec[r2]

\* C2: a request whose freshness check runs at now <= expires_at - 60s (both
\* in milliseconds) gets the stored access token and is passed on at once,
\* without a token exchange and without a write to the store, then or later.
C2_FreshUsesStored ==
  /\ [][\A r \in Reqs :
          (pc[r] = "selectOk" /\ pc'[r] # "selectOk" /\ rec[r].row
             /\ now <= rec[r].expires_at - SkewMs)
          => /\ pc'[r] = "api"
             /\ token'[r] = rec[r].access_token
             /\ bearer'[r] = <<rec[r].access_token>>
             /\ sent'[r] = None
             /\ issued' = issued
             /\ store' = store]_vars
  /\ [](\A r \in Reqs :
          stale[r] = "fresh" => sent[r] = None /\ resp[r] = None /\ wrote[r] = None)

C2_Witness ==
  \E r \in Reqs : /\ pc[r] = "done"
                  /\ stale[r] = "fresh"
                  /\ bearer[r] = <<rec[r].access_token>>
                  /\ responses[r] = <<200>>

\* C3: a successful refresh stores exactly the three fields of the response,
\* and a request that then reads that record before its expiry less the skew
\* (expires_at being seconds since the epoch, as the authorization server
\* returned it) gets the new access token without another token exchange.
C3_NextCallReusesRefreshedToken ==
  [][\A r \in Reqs :
       /\ (pc[r] = "update" /\ pc'[r] = "updateOk") => store' = resp[r]
       /\ (pc[r] = "selectOk" /\ pc'[r] # "selectOk"
             /\ \E i \in DOMAIN issued : issued[i] = rec[r]
             /\ now <= rec[r].expires_at * MsPerSec - SkewMs)
          => /\ pc'[r] = "api"
             /\ token'[r] = rec[r].access_token
             /\ sent'[r] = None]_vars

\* C4: the refresh token posted to the authorization endpoint is the
\* refresh_token of the record the request has just read.
C4_PresentsStoredRefreshToken ==
  \A r \in Reqs : sent[r] # None => sent[r] = rec[r].refresh_token

\* C5: a request that found the record stale and was passed on has had its
\* UPDATE run, the UPDATE left the row equal to the triple of the request's
\* own token exchange, and the token attached is that triple's access_token.
C5_RefreshStoresThenReturns ==
  \A r \in Reqs :
    /\ wrote[r] # None => /\ wrote[r] = resp[r]
                          /\ \E i \in DOMAIN issued : issued[i] = wrote[r]
    /\ (Refreshing(r) /\ Handed(r))
         => /\ wrote[r] # None
            /\ token[r] = resp[r].access_token
            /\ bearer[r] = <<resp[r].access_token>>

C5_Witness ==
  \E r \in Reqs : /\ Refreshing(r)
                  /\ pc[r] = "api"
                  /\ store = resp[r]
                  /\ token[r] = store.access_token

\* C6: when the token exchange of a request fails, that step leaves the store
\* as it was and answers 500; the request never writes the store, gets no
\* token and is not passed on.
C6_FailedExchangeKeepsStore ==
  /\ [][\A r \in Reqs :
          (pc[r] = "exchange" /\ pc'[r] # "exchange" /\ issued' = issued)
          => /\ pc'[r] = "done"
             /\ store' = store
             /\ responses'[r] = <<500>>]_vars
  /\ [](\A r \in Reqs :
          err[r] = "exchange"
          => /\ wrote[r] = None
             /\ token[r] = None
             /\ nextCalls[r] = 0
             /\ pc[r] = "done")

C6_Witness ==
  \E r \in Reqs : /\ err[r] = "exchange"
                  /\ responses[r] = <<500>>
                  /\ store = rec[r]

\* C7: a request whose freshness check judged the record stale never sends
\* the record's access token upstream: every bearer token it sends is the
\* access_token of its own token exchange, and when the exchange failed it
\* sends nothing and its route handler does not run.
C7_StaleTokenNeverUsed ==
  \A r \in Reqs :
    /\ Refreshing(r)
         => \A i \in DOMAIN bearer[r] :
              /\ bearer[r][i] # rec[r].access_token
              /\ resp[r] # None
              /\ bearer[r][i] = resp[r].access_token
    /\ (Refreshing(r) /\ resp[r] = None) => (bearer[r] = <<>> /\ nextCalls[r] = 0)

C7_Witness ==
  /\ \E r \in Reqs : Refreshing(r) /\ err[r] = "exchange" /\ bearer[r] = <<>>
  /\ \E r \in Reqs : Refreshing(r) /\ Len(bearer[r]) = 1

\* C8: whenever no request is in flight, the stored triple is the one the
\* authorization server issued last.
C8_StoreIsLatestIssued ==
  (Quiet /\ issued # <<>>) => store = Last(issued)

\* C9: concurrent requests that found the same record stale and were each
\* given a token were given the same token, and that token is the stored
\* access_token once no request is in flight.
C9_SameTokenForAll ==
  \A r1, r2 \in Reqs :
    (Refreshing(r1) /\ Refreshing(r2) /\ rec[r1] = rec[r2]
       /\ token[r1] # None /\ token[r2] # None)
    => /\ token[r1] = token[r2]
       /\ Quiet => store.access_token = token[r1]

\* C10: a refreshed token is handed on only after the UPDATE succeeded.  When
\* the UPDATE fails the step leaves the store as it was and answers 500, and
\* the access token of that exchange is attached to no outbound call.
C10_NoTokenBeforeWrite ==
  /\ [][\A r \in Reqs :
          (pc[r] = "update" /\ pc'[r] # "update" /\ pc'[r] # "updateOk")
          => /\ pc'[r] = "done"
             /\ store' = store
             /\ responses'[r] = <<500>>]_vars
  /\ [](\A r \in Reqs :
          /\ (resp[r] # None /\ pc[r] # "updateOk" /\ wrote[r] = None)
               => /\ token[r] = None
                  /\ nextCalls[r] = 0
                  /\ \A q \in Reqs : \A i \in DOMAIN bearer[q] :
                       bearer[q][i] # resp[r].access_token
          /\ err[r] = "update" => (wrote[r] = None /\ resp[r] # None))

C10_Witness ==
  \E r \in Reqs : /\ err[r] = "update"
                  /\ responses[r] = <<500>>
                  /\ store = rec[r]
                  /\ store # resp[r]

\* C11: the store changes only in the step in which the UPDATE of a request
\* runs, which follows that request's successful token exchange and sets all
\* three fields from that one response.  The stored triple is therefore always
\* the pre-seeded one or the whole triple of a single response, and the
\* fresh-token path and the route handlers leave it as it was.
C11_StoreChangedOnlyByRefresh ==
  /\ [][store' # store
          => \E r \in Reqs :
               /\ pc[r] = "update" /\ pc'[r] = "updateOk"
               /\ \E i \in DOMAIN issued : issued[i] = resp[r]
               /\ store' = resp[r]]_vars
  /\ [][\A r \in Reqs :
          (pc[r] \in {"api", "selectOk"} /\ pc'[r] # pc[r]) => store' = store]_vars
  /\ [](store \in SeedRows \cup {NoRow} \cup {issued[i] : i \in DOMAIN issued})

C11_Witness ==
  \E r, q \in Reqs :
    /\ wrote[r] = store /\ store # rec[r] /\ pc[r] = "done"
    /\ stale[q] = "fresh" /\ pc[q] = "done" /\ responses[q] = <<200>>

\* C12: a request posts at most one token exchange.  The POST is sent only
\* from the freshness check, by a request that has posted none before; a
\* request waiting for the answer has no earlier answer or failure behind it;
\* a failed exchange ends the request, and an ended request takes no step.
C12_OneExchangePerRequest ==
  /\ [][\A r \in Reqs :
          /\ (pc'[r] = "exchange" /\ pc[r] # "exchange")
               => (pc[r] = "selectOk" /\ sent[r] = None)
          /\ sent'[r] # sent[r] => (sent[r] = None /\ pc'[r] = "exchange")
          /\ (pc[r] = "exchange" /\ pc'[r] # "exchange" /\ issued' = issued)
               => pc'[r] = "done"
          /\ pc[r] = "done" => pc'[r] = "done"]_vars
  /\ [](\A r \in Reqs :
          /\ pc[r] = "exchange" => (err[r] = "none" /\ resp[r] = None /\ sent[r] # None)
          /\ err[r] = "exchange" => (pc[r] = "done" /\ resp[r] = None))
  /\ [](Len(issued) <= Cardinality({r \in Reqs : sent[r] # None}))

C12_Witness ==
  \E r \in Reqs : /\ err[r] = "exchange"
                  /\ pc[r] = "done"
                  /\ sent[r] # None
                  /\ issued = <<>>

\* C13: failures leave nothing behind but the store.  Once another request
\* has failed in the middleware, a request can still arrive, have its SELECT
\* and its token exchange served, and its steps are those of any request: it
\* reads the store as it is, checks freshness against the record it read,
\* posts a token exchange when the record is stale and, once its UPDATE ran,
\* is passed on with the new access token.
MiddlewareFailure == {"select", "norow", "exchange", "update"}
OtherFailed(q) == \E r \in Reqs \ {q} : err[r] \in MiddlewareFailure

C13_FailuresAreRequestScoped ==
  /\ [][\A q \in Reqs :
          OtherFailed(q) =>
            /\ (pc[q] = "select" /\ pc'[q] = "selectOk") => rec'[q] = store
            /\ (pc[q] = "selectOk" /\ pc'[q] # "selectOk" /\ rec[q].row)
                 => IF now > rec[q].expires_at - SkewMs
                      THEN pc'[q] = "exchange" /\ sent'[q] # None
                      ELSE pc'[q] = "api" /\ token'[q] = rec[q].access_token
            /\ (pc[q] = "updateOk" /\ pc'[q] # "updateOk")
                 => (pc'[q] = "api" /\ token'[q] = resp[q].access_token)]_vars
  /\ [](\A q \in Reqs :
          OtherFailed(q) =>
            /\ pc[q] = "idle" => \A rt \in Routes : ENABLED Arrive(q, rt)
            /\ pc[q] = "select" => ENABLED DbSelectOk(q)
            /\ pc[q] = "selectOk" => ENABLED AfterSelect(q)
            /\ pc[q] = "exchange" => ENABLED ExchangeOk(q)
            /\ pc[q] = "update" => ENABLED DbUpdateOk(q))

C13_Witness ==
  \E r, q \in Reqs :
    /\ r # q
    /\ err[r] = "exchange"
    /\ rec[q] = rec[r]
    /\ stale[q] = "stale"
    /\ store = resp[q]
    /\ token[q] = resp[q].access_token
    /\ responses[q] = <<200>>

\* C14: a request that failed anywhere (SELECT rejected, no row, token
\* exchange failed, UPDATE rejected, forwarded call failed) has been answered
\* with exactly the one status 500; the step in which it fails is the step
\* that answers; and 200 is the answer only of a request none of whose calls
\* failed and whose forwarded call was sent.
C14_AnyFailureIs500 ==
  /\ [](\A r \in Reqs :
          /\ err[r] # "none" => (pc[r] = "done" /\ responses[r] = <<500>>)
          /\ (pc[r] = "done" /\ err[r] = "none")
               => (responses[r] = <<200>> /\ Len(bearer[r]) = 1)
          /\ \A i \in DOMAIN responses[r] : responses[r][i] \in {200, 500})
  /\ [][\A r \in Reqs :
          /\ (pc[r] = "select" /\ pc'[r] \notin {"select", "selectOk"})
               => responses'[r] = <<500>>
          /\ (pc[r] = "selectOk" /\ ~rec[r].row /\ pc'[r] # "selectOk")
               => responses'[r] = <<500>>
          /\ (pc[r] = "exchange" /\ pc'[r] \notin {"exchange", "exchangeOk"})
               => responses'[r] = <<500>>
          /\ (pc[r] = "update" /\ pc'[r] \notin {"update", "updateOk"})
               => responses'[r] = <<500>>
          /\ (pc[r] = "api" /\ pc'[r] # "api")
               => responses'[r] \in {<<200>>, <<500>>}]_vars

C14_Witness ==
  \E r, q \in Reqs :
    /\ err[r] = "api" /\ Len(bearer[r]) = 1 /\ responses[r] = <<500>>
    /\ err[q] = "update" /\ responses[q] = <<500>>

\* C15: when the SELECT is rejected or returns no row, the step that learns
\* of it answers 500, and the request never posts a token exchange, never
\* writes the store, is never passed on and sends nothing upstream.
C15_NoStoreNoUpstream ==
  /\ [][\A r \in Reqs :
          (\/ pc[r] = "select" /\ pc'[r] \notin {"select", "selectOk"}
           \/ pc[r] = "selectOk" /\ ~rec[r].row /\ pc'[r] # "selectOk")
          => /\ pc'[r] = "done"
             /\ responses'[r] = <<500>>
             /\ nextCalls'[r] = 0
             /\ bearer'[r] = <<>>
             /\ sent'[r] = None
             /\ store' = store
             /\ issued' = issued]_vars
  /\ [](\A r \in Reqs :
          err[r] \in {"select", "norow"}
          => /\ sent[r] = None /\ resp[r] = None /\ wrote[r] = None
             /\ token[r] = None /\ nextCalls[r] = 0 /\ bearer[r] = <<>>
             /\ pc[r] = "done")

C15_Witness ==
  \E r, q \in Reqs :
    /\ err[r] = "norow" /\ responses[r] = <<500>> /\ store = NoRow
    /\ err[q] = "select" /\ responses[q] = <<500>>

\* ------------------------------------------------------ store round trip
\* Largest token number of the triples written in the round-trip runs.
MaxTokId == 2

\* The triples a token exchange may hand to the UPDATE: any pair of tokens,
\* with an expiry of zero, one in seconds and one in milliseconds.
RtTriples ==
  {Row(Tok("access", a), Tok("refresh", b), e) :
     a \in 1..MaxTokId, b \in 1..MaxTokId,
     e \in {0, (StartNow \div MsPerSec) + TokenLifeSec, StartNow + 3600000}}

\* Request 1 has found the pre-seeded row stale, has received the triple t
\* from the authorization server and has sent its UPDATE; the other requests
\* have not arrived yet.
RtInit ==
  \E t \in RtTriples :
    /\ store \in {s \in SeedRows : IsStale(StartNow, s.expires_at)}
    /\ now = StartNow
    /\ issued = <<t>>
    /\ pc = [r \in Reqs |-> IF r = 1 THEN "update" ELSE "idle"]
    /\ rec = [r \in Reqs |-> IF r = 1 THEN store ELSE None]
    /\ stale = [r \in Reqs |-> IF r = 1 THEN "stale" ELSE "unchecked"]
    /\ sent = [r \in Reqs |-> IF r = 1 THEN ConfigAccessToken ELSE None]
    /\ resp = [r \in Reqs |-> IF r = 1 THEN t ELSE None]
    /\ wrote = [r \in Reqs |-> None]
    /\ token = [r \in Reqs |-> None]
    /\ bearer = [r \in Reqs |-> <<>>]
    /\ nextCalls = [r \in Reqs |-> 0]
    /\ responses = [r \in Reqs |-> <<>>]
    /\ err = [r \in Reqs |-> "none"]

\* The UPDATE of request 1 runs, and the other requests arrive and have their
\* SELECT run, in any order.
RtNext ==
  \/ DbUpdateOk(1)
  \/ \E r \in Reqs \ {1}, rt \in Routes : Arrive(r, rt)
  \/ \E r \in Reqs \ {1} : DbSelectOk(r)

RoundTripSpec == RtInit /\ [][RtNext]_vars

C17_ExactlyOneResponse ==
  /\ [](\A r \in Reqs :
          /\ Len(responses[r]) <= 1
          /\ nextCalls[r] <= 1
          /\ Len(bearer[r]) = nextCalls[r]
          /\ pc[r] = "done" <=> Len(responses[r]) = 1
          /\ (pc[r] = "done" /\ nextCalls[r] = 0) => responses[r] = <<500>>
          /\ pc[r] = "api" <=> (nextCalls[r] = 1 /\ responses[r] = <<>>))
  /\ [][\A r \in Reqs :
          /\ responses[r] # <<>> => (nextCalls'[r] = nextCalls[r] /\ responses'[r] = responses[r])
          /\ nextCalls'[r] # nextCalls[r] => responses'[r] = <<>>]_vars

C17_Witness ==
  \E r, q \in Reqs :
    /\ pc[r] = "done" /\ nextCalls[r] = 0 /\ responses[r] = <<500>>
    /\ pc[q] = "done" /\ nextCalls[q] = 1 /\ Len(responses[q]) = 1

\* C18: the bearer token of a request's outbound call is req.accessToken of
\* that request, which is the access_token of the record the request itself
\* read when it judged it fresh, and the access_token of the response to its
\* own token exchange when it judged it stale, whatever other requests have
\* read or been issued meanwhile.
C18_OwnTokenOnly ==
  \A r \in Reqs : \A i \in DOMAIN bearer[r] :
    /\ bearer[r][i] = token[r]
    /\ stale[r] \in {"fresh", "stale"}
    /\ stale[r] = "fresh" => bearer[r][i] = rec[r].access_token
    /\ stale[r] = "stale" => (resp[r] # None /\ bearer[r][i] = resp[r].access_token)
    /\ \A q \in Reqs \ {r} :
         (resp[q] # None /\ resp[q] # rec[r]) => bearer[r][i] # resp[q].access_token

C18_Witness ==
  \E r, q \in Reqs :
    /\ r # q
    /\ stale[r] = "stale" /\ stale[q] = "stale"
    /\ Len(bearer[r]) = 1 /\ Len(bearer[q]) = 1
    /\ bearer[r][1] # bearer[q][1]
    /\ store.access_token # bearer[r][1]

\* C19: every request that has arrived is eventually answered, and a request
\* in flight never waits for another one: whatever the other requests are
\* doing, a step of its own is possible.
C19_EveryRequestAnswered ==
  /\ \A r \in Reqs : (pc[r] # "idle") ~> (pc[r] = "done" /\ Len(responses[r]) = 1)
  /\ [](\A r \in Reqs : pc[r] \notin {"idle", "done"} => ENABLED ReqStep(r))

C19_Witness ==
  \A r \in Reqs : pc[r] = "done" /\ Len(responses[r]) = 1 /\ stale[r] = "stale"

====
